---- MODULE Spec2Model ----
(***************************************************************************)
(* Model of ct_re_solver.solver(A, N): the stable solution xdot = B*x,     *)
(* y = F*x of a continuous-time linear rational-expectations model.        *)
(*                                                                         *)
(* Matrices are exact rational matrices: a record [r, c, d, n] of shape    *)
(* r-by-c whose entry (i, j) is n[i][j] / d, kept in lowest terms.  The    *)
(* floating-point rounding of the LAPACK backend is not modelled.          *)
(***************************************************************************)
EXTENDS Integers, Sequences, FiniteSets, TLC

\* Largest matrix dimension M the caller passes.
MaxM == 3
\* Stable eigenvalue real parts are drawn from -MaxEig..-1 (the others are
\* 0 and 1: only their sign reaches B and F).
MaxEig == 2

----------------------------------------------------------------------------
\* Exact rational matrices

Abs(x) == IF x < 0 THEN 0 - x ELSE x

Min(a, b) == IF a < b THEN a ELSE b

Max(a, b) == IF a > b THEN a ELSE b

\* The r-by-c table of the entries f[i][j], as a sequence of rows.
Table(f, r, c) == SubSeq([i \in 1..r |-> SubSeq(f[i], 1, c)], 1, r)

RECURSIVE Gcd(_, _)
Gcd(a, b) == IF b = 0 THEN Abs(a) ELSE Gcd(b, a % Abs(b))

\* Gcd of g and the first k entries of a row.
RECURSIVE GcdRow(_, _, _)
GcdRow(g, row, k) ==
  IF k = 0 \/ g = 1 THEN g ELSE GcdRow(Gcd(g, row[k]), row, k - 1)

\* Gcd of g and the entries of the first k rows.
RECURSIVE GcdRows(_, _, _)
GcdRows(g, rows, k) ==
  IF k = 0 \/ g = 1 THEN g ELSE GcdRows(GcdRow(g, rows[k], Len(rows[k])), rows, k - 1)

\* Lowest terms with a positive denominator.
Norm(X) ==
  IF X.d = 1 THEN X
  ELSE LET g0 == GcdRows(Abs(X.d), X.n, X.r)
           g  == IF X.d < 0 THEN 0 - g0 ELSE g0
       IN IF g = 1 THEN X ELSE
          [r |-> X.r, c |-> X.c, d |-> X.d \div g,
           n |-> Table([i \in 1..X.r |-> [j \in 1..X.c |-> X.n[i][j] \div g]],
                       X.r, X.c)]

\* The value of a local name that is not bound (yet).
NoMat == [r |-> 0 - 1, c |-> 0 - 1, d |-> 1, n |-> <<>>]

NoInt == 0 - 1000

RECURSIVE SumTo(_, _)
SumTo(f, k) == IF k = 0 THEN 0 ELSE f[k] + SumTo(f, k - 1)

\* The product of X and Y, not yet in lowest terms.
Product(X, Y) ==
  [r |-> X.r, c |-> Y.c, d |-> X.d * Y.d,
   n |-> Table([i \in 1..X.r |-> [j \in 1..Y.c |->
                  SumTo([k \in 1..X.c |-> X.n[i][k] * Y.n[k][j]], X.c)]],
               X.r, Y.c)]

\* X @ Y
MatMul(X, Y) == Norm(Product(X, Y))

\* X.T
Transpose(X) ==
  [r |-> X.c, c |-> X.r, d |-> X.d,
   n |-> Table([i \in 1..X.c |-> [j \in 1..X.r |-> X.n[j][i]]], X.c, X.r)]

\* A Python slice bound k on an axis of length len: [:k] stops at, and [k:]
\* starts at, this index (negative k counts from the end, both clip).
PyBound(k, len) == IF k < 0 THEN Max(len + k, 0) ELSE Min(k, len)

\* X[r0:r1, c0:c1] with 0-based half-open clipped bounds
Block(X, r0, r1, c0, c1) ==
  LET nr == Max(r1 - r0, 0)
      nc == Max(c1 - c0, 0)
  IN Norm([r |-> nr, c |-> nc, d |-> X.d,
           n |-> Table([i \in 1..nr |-> [j \in 1..nc |-> X.n[r0 + i][c0 + j]]],
                       nr, nc)])

\* X[:N, :N]
TopLeft(X, N) == Block(X, 0, PyBound(N, X.r), 0, PyBound(N, X.c))

\* X[N:, N:], the wrong columns
BottomRight(X, N) == Block(X, PyBound(N, X.r), X.r, PyBound(N, X.c), X.c)

\* X[N:, :N]
BottomLeft(X, N) == Block(X, PyBound(N, X.r), X.r, 0, PyBound(N, X.c))

\* Determinant of a square table of integers, by expansion along row 1.
Minor(n, j) ==
  Table([i \in 1..(Len(n) - 1) |->
           [k \in 1..(Len(n) - 1) |-> IF k < j THEN n[i + 1][k] ELSE n[i + 1][k + 1]]],
        Len(n) - 1, Len(n) - 1)

RECURSIVE Det(_)
Det(n) ==
  IF Len(n) = 0 THEN 1
  ELSE SumTo([j \in 1..Len(n) |->
               (IF j % 2 = 1 THEN 1 ELSE 0 - 1) * n[1][j] * Det(Minor(n, j))],
             Len(n))

ReplaceCol(n, k, col) ==
  Table([i \in 1..Len(n) |-> [j \in 1..Len(n) |-> IF j = k THEN col[i] ELSE n[i][j]]],
        Len(n), Len(n))

IsSingular(a) == Det(a.n) = 0

\* A solve that answers a singular system with the zero matrix, as a
\* least-squares or pseudo-inverse fallback does for a zero block.
SolveWithFallback(a, b) ==
  IF a.r # a.c \/ b.r # a.r
  THEN [ok |-> FALSE, x |-> NoMat]
  ELSE IF IsSingular(a)
  THEN [ok |-> TRUE,
        x  |-> [r |-> a.r, c |-> b.c, d |-> 1,
                n |-> Table([i \in 1..a.r |-> [j \in 1..b.c |-> 0]], a.r, b.c)]]
  ELSE LET det == Det(a.n)
           num == Table([i \in 1..a.r |-> [j \in 1..b.c |->
                           a.d * Det(ReplaceCol(a.n, i, [k \in 1..a.r |-> b.n[k][j]]))]],
                        a.r, b.c)
       IN [ok |-> TRUE,
           x  |-> Norm([r |-> a.r, c |-> b.c, d |-> b.d * det, n |-> num])]

\* numpy.linalg.solve(a, b): the x with a @ x = b, or LinAlgError when a is
\* singular.  x[i][j] = det(a with column i replaced by b[:, j]) / det(a).
Solve(a, b) ==
  IF a.r # a.c \/ b.r # a.r \/ IsSingular(a)
  THEN [ok |-> FALSE, x |-> NoMat]
  ELSE LET det == Det(a.n)
           num == Table([i \in 1..a.r |-> [j \in 1..b.c |->
                           a.d * Det(ReplaceCol(a.n, i, [k \in 1..a.r |-> b.n[k][j]]))]],
                        a.r, b.c)
       IN [ok |-> TRUE,
           x  |-> Norm([r |-> a.r, c |-> b.c, d |-> b.d * det, n |-> num])]

----------------------------------------------------------------------------
\* The decompositions scipy.linalg.schur can return

Dims == 1..MaxM

EigVals == (0 - MaxEig)..1

Identity(M) ==
  [r |-> M, c |-> M, d |-> 1,
   n |-> Table([i \in 1..M |-> [j \in 1..M |-> IF i = j THEN 1 ELSE 0]], M, M)]

\* The rotation of the (i, i+1) plane with cosine c/h and sine s/h.
Givens(M, i, c, s, h) ==
  Norm([r |-> M, c |-> M, d |-> h,
        n |-> Table([p \in 1..M |-> [q \in 1..M |->
                       IF p = i /\ q = i THEN c
                       ELSE IF p = i /\ q = i + 1 THEN 0 - s
                       ELSE IF p = i + 1 /\ q = i THEN s
                       ELSE IF p = i + 1 /\ q = i + 1 THEN c
                       ELSE IF p = q THEN h ELSE 0]], M, M)])

\* Orthogonal matrices Q (Q @ Q.T = I) with rational entries: the identity,
\* the quarter turns and the 3-4-5 rotations of one coordinate plane, and
\* the product of the 3-4-5 rotations of the first two planes.
Orthogonals(M) ==
  {Identity(M)}
    \cup { Givens(M, i, 0, 1, 1) : i \in 1..(M - 1) }
    \cup { Givens(M, i, 3, 4, 5) : i \in 1..(M - 1) }
    \cup { MatMul(Givens(M, i, 3, 4, 5), Givens(M, i + 1, 3, 4, 5)) : i \in 1..Min(1, M - 2) }

\* T is a real Schur form: square, upper quasi-triangular, each 2-by-2
\* diagonal block in LAPACK's standard form (equal diagonal entries,
\* off-diagonal entries of opposite sign: a complex-conjugate pair).
IsRealSchurForm(T) ==
  /\ T.r = T.c
  /\ \A i, j \in 1..T.r : i > j + 1 => T.n[i][j] = 0
  /\ \A i \in 1..(T.r - 1) :
       T.n[i + 1][i] # 0 =>
         /\ T.n[i][i] = T.n[i + 1][i + 1]
         /\ (T.n[i][i + 1] < 0) = (T.n[i + 1][i] > 0)
         /\ T.n[i][i + 1] # 0
         /\ i + 2 <= T.r => T.n[i + 2][i + 1] = 0

\* Real part of the eigenvalue at diagonal position i of a real Schur form,
\* times the (positive) denominator of the matrix.
EigRe(T, i) == T.n[i][i]

\* sort='rhp': the open right half plane instead.
SelectRhp(re) == re > 0

\* The closed left half plane: a zero real part counted as stable.
SelectClosed(re) == re <= 0

\* sort='lhp': the eigenvalues selected to come first are those in the open
\* left half plane.
Select(re) == re < 0

\* Selected eigenvalues lead the diagonal of T.
IsOrdered(T) ==
  \A i, j \in 1..T.r : (i < j /\ Select(EigRe(T, j))) => Select(EigRe(T, i))

\* The count schur reports: eigenvalues of T for which Select is true.
Sdim(T) == Cardinality({ i \in 1..T.r : Select(EigRe(T, i)) })

\* The real Schur decompositions a = Q @ T @ Q.T of a, in any order.
Decompositions(a) ==
  { [U |-> Norm(d.U), Q |-> d.Q] :
      d \in { e \in { [U |-> Product(Product(Transpose(Z), a), Z), Q |-> Z] :
                        Z \in Orthogonals(a.r) } : IsRealSchurForm(e.U) } }

\* linalg.schur(a, sort='lhp'): any real Schur decomposition of a with the
\* selected eigenvalues ordered first, and their count.
Schur(a) ==
  { [U |-> d.U, Q |-> d.Q, sdim |-> Sdim(d.U)] :
      d \in { e \in Decompositions(a) : IsOrdered(e.U) } }

\* An ordered real Schur form with eigenvalue real parts diag, a complex
\* pair diag[pair] +- i at positions pair, pair+1 when pair > 0, and
\* coupling cpl above the diagonal.
QuasiTriangular(M, diag, pair, cpl) ==
  [r |-> M, c |-> M, d |-> 1,
   n |-> Table([i \in 1..M |-> [j \in 1..M |->
                  IF i = j THEN diag[i]
                  ELSE IF i < j THEN (IF pair = i /\ j = i + 1 THEN 1 ELSE cpl)
                  ELSE IF pair = j /\ i = j + 1 THEN 0 - 1 ELSE 0]], M, M)]

SchurForms(M) ==
  { T \in { QuasiTriangular(M, diag, pair, cpl) :
              diag \in { f \in [1..M -> EigVals] :
                           \A i \in 1..(M - 1) : f[i] <= f[i + 1] },
              pair \in 0..(M - 1), cpl \in {0, 1} } :
      IsRealSchurForm(T) }

\* The matrices the caller passes: A = Q @ T @ Q.T of dimension 1..MaxM.
InputMatrices ==
  UNION { { MatMul(MatMul(Z, T), Transpose(Z)) :
              T \in SchurForms(M), Z \in Orthogonals(M) } : M \in Dims }

\* schur called with overwrite_a=True.
overwrite_a_true == TRUE

\* schur's overwrite_a argument, left at its default by solver.
overwrite_a == FALSE

\* What the caller's array holds after schur(a, overwrite_a=...) produced T.
SchurInputAfter(a, T) == IF overwrite_a THEN T ELSE a

----------------------------------------------------------------------------
\* The statements of solver

\* assert n_neg >= N: too many stable eigenvalues go unnoticed
BlanchardKahnAtLeast(n, k) == n >= k

\* assert n_neg == N and N: a zero N fails the check
BlanchardKahnTruthy(n, k) == n = k /\ k # 0

\* the assert statement stripped
BlanchardKahnOff(n, k) == TRUE

\* assert n_neg == N
BlanchardKahn(n, k) == n = k

\* The AssertionError of line 45, whose message formats N and n_neg.
AssertionError(k, n) == [kind |-> "AssertionError", N |-> k, n_neg |-> n]

\* numpy.linalg.LinAlgError("Singular matrix")
LinAlgError == [kind |-> "LinAlgError", N |-> NoInt, n_neg |-> NoInt]

NoExc == [kind |-> "none", N |-> NoInt, n_neg |-> NoInt]

NoRet == [B |-> NoMat, F |-> NoMat]

\* B = U[:N, :N]: the change of basis Q_xs forgotten
StateLawNoBasis(q, u, k) ==
  LET s == Solve(Transpose(TopLeft(q, k)),
                 Transpose(MatMul(TopLeft(q, k), TopLeft(u, k))))
  IN [ok |-> s.ok, x |-> IF s.ok THEN TopLeft(u, k) ELSE NoMat]

\* B = np.linalg.solve(Q[:N, :N].T, (Q[:N, :N] @ U[:N, :N]).T).T
StateLaw(q, u, k) ==
  LET s == Solve(Transpose(TopLeft(q, k)),
                 Transpose(MatMul(TopLeft(q, k), TopLeft(u, k))))
  IN [ok |-> s.ok, x |-> IF s.ok THEN Transpose(s.x) ELSE NoMat]

\* F = Q[N:, :N]: the inverse of Q_xs forgotten
JumpMapNoBasis(q, k) ==
  LET s == Solve(Transpose(TopLeft(q, k)), Transpose(BottomLeft(q, k)))
  IN [ok |-> s.ok, x |-> IF s.ok THEN BottomLeft(q, k) ELSE NoMat]

\* F = np.linalg.solve(Q[:N, :N].T, Q[N:, :N].T).T
JumpMap(q, k) ==
  LET s == Solve(Transpose(TopLeft(q, k)), Transpose(BottomLeft(q, k)))
  IN [ok |-> s.ok, x |-> IF s.ok THEN Transpose(s.x) ELSE NoMat]

VARIABLES
  A,        \* the caller's coefficient matrix
  N,        \* the caller's state dimension
  pc,       \* position of the call in solver, "idle" between calls
  U, Q,     \* locals of solver: the Schur form and the orthogonal factor
  n_neg,    \* local: the count schur reported
  B, F,     \* locals: the two results
  exc,      \* the exception propagating out of solver, if any
  ret,      \* the value solver returned, if any
  results   \* the outcomes the finished calls gave the caller

vars == <<A, N, pc, U, Q, n_neg, B, F, exc, ret, results>>

locals == <<U, Q, n_neg, B, F>>

Init ==
  /\ A \in InputMatrices
  /\ N \in (0 - 1)..(A.r + 1)
  /\ pc = "idle"
  /\ U = NoMat /\ Q = NoMat /\ n_neg = NoInt /\ B = NoMat /\ F = NoMat
  /\ exc = NoExc
  /\ ret = NoRet
  /\ results = {}

\* The caller evaluates solver(A, N), any number of times.
Call ==
  /\ pc = "idle"
  /\ pc' = "schur"
  /\ UNCHANGED <<A, N, locals, exc, ret, results>>

\* U, Q, n_neg = linalg.schur(A, sort='lhp')
SchurStep ==
  /\ pc = "schur"
  /\ \E s \in Schur(A) :
       /\ U' = s.U
       /\ Q' = s.Q
       /\ n_neg' = s.sdim
       /\ A' = SchurInputAfter(A, s.U)
  /\ pc' = "assert"
  /\ UNCHANGED <<N, B, F, exc, ret, results>>

\* assert n_neg == N, (...)
AssertStep ==
  /\ pc = "assert"
  /\ IF BlanchardKahn(n_neg, N)
     THEN pc' = "solveB" /\ exc' = exc
     ELSE pc' = "raised" /\ exc' = AssertionError(N, n_neg)
  /\ UNCHANGED <<A, N, locals, ret, results>>

\* B = ...
SolveB ==
  /\ pc = "solveB"
  /\ LET s == StateLaw(Q, U, N)
     IN IF s.ok
        THEN B' = s.x /\ pc' = "solveF" /\ exc' = exc
        ELSE B' = B /\ pc' = "raised" /\ exc' = LinAlgError
  /\ UNCHANGED <<A, N, U, Q, n_neg, F, ret, results>>

\* F = ...
SolveF ==
  /\ pc = "solveF"
  /\ LET s == JumpMap(Q, N)
     IN IF s.ok
        THEN F' = s.x /\ pc' = "return" /\ exc' = exc
        ELSE F' = F /\ pc' = "raised" /\ exc' = LinAlgError
  /\ UNCHANGED <<A, N, U, Q, n_neg, B, ret, results>>

\* return B, F
Return ==
  /\ pc = "return"
  /\ ret' = [B |-> B, F |-> F]
  /\ pc' = "returned"
  /\ UNCHANGED <<A, N, locals, exc, results>>

\* The frame of solver is dropped; the caller holds the outcome.
Exit ==
  /\ pc \in {"returned", "raised"}
  /\ results' = results \cup {[exc |-> exc, ret |-> ret]}
  /\ U' = NoMat /\ Q' = NoMat /\ n_neg' = NoInt /\ B' = NoMat /\ F' = NoMat
  /\ exc' = NoExc
  /\ ret' = NoRet
  /\ pc' = "idle"
  /\ UNCHANGED <<A, N>>

Next == Call \/ SchurStep \/ AssertStep \/ SolveB \/ SolveF \/ Return \/ Exit

Spec == Init /\ [][Next]_vars

----------------------------------------------------------------------------
\* Properties

\* Positions of a call after the assert statement has passed.
Solving == {"solveB", "solveF", "return", "returned"}

\* The call is over: an exception propagates or a value was returned.
Finished == pc \in {"raised", "returned"}

InRange == 0 < N /\ N < A.r

HasNonZero(X) == \E i \in 1..X.r, j \in 1..X.c : X.n[i][j] # 0

\* np.vstack((X, Y)) for matrices with the same number of columns
VStack(X, Y) ==
  Norm([r |-> X.r + Y.r, c |-> X.c, d |-> X.d * Y.d,
        n |-> Table([i \in 1..(X.r + Y.r) |-> [j \in 1..X.c |->
                       IF i <= X.r THEN X.n[i][j] * Y.d ELSE Y.n[i - X.r][j] * X.d]],
                    X.r + Y.r, X.c)])

\* Eigenvalues of a real Schur form with strictly negative real part.
NegCount(T) == Cardinality({ i \in 1..T.r : T.n[i][i] < 0 })

\* C1: when the count n_neg that schur reported differs from N, the call
\* fails with the assertion failure whose message carries N and n_neg, and
\* returns nothing, whether n_neg is smaller or larger than N.
C1_CountMismatchFails ==
  (pc \in Solving \cup {"raised"} /\ n_neg # N) =>
    /\ pc = "raised"
    /\ exc = [kind |-> "AssertionError", N |-> N, n_neg |-> n_neg]
    /\ ret = NoRet /\ B = NoMat /\ F = NoMat

C1_Witness ==
  /\ pc = "raised" /\ InRange /\ n_neg < N
  /\ exc.kind = "AssertionError" /\ exc.n_neg = n_neg

\* C2: a returned (B, F) satisfies A @ [I; F] = [B; F @ B].
C2_DynamicsConsistent ==
  pc = "returned" =>
    MatMul(A, VStack(Identity(ret.B.r), ret.F)) = VStack(ret.B, MatMul(ret.F, ret.B))

C2_Witness ==
  /\ pc = "returned" /\ InRange /\ N >= 2
  /\ HasNonZero(ret.F) /\ ret.B # TopLeft(A, N)

C4_Original ==
  (Finished /\ InRange /\ NegCount(U) = N) =>
    /\ pc = "returned"
    /\ ret.B.r = N /\ ret.B.c = N /\ ret.F.r = A.r - N /\ ret.F.c = N

\* C4 amended: with 0 < N < M and exactly N eigenvalues of A of negative
\* real part, the call succeeds with B N-by-N and F (M-N)-by-N provided
\* Q[:N, :N] is nonsingular; when it is singular the call fails with
\* LinAlgError.
C4_SucceedsUnlessSingular ==
  (Finished /\ InRange /\ NegCount(U) = N) =>
    IF IsSingular(TopLeft(Q, N))
    THEN pc = "raised" /\ exc = LinAlgError
    ELSE /\ pc = "returned"
         /\ ret.B.r = N /\ ret.B.c = N /\ ret.F.r = A.r - N /\ ret.F.c = N

C4_Witness ==
  /\ pc = "returned" /\ A.r = 3 /\ N = 1 /\ NegCount(U) = 1
  /\ ret.F.r = 2 /\ ret.F.c = 1 /\ HasNonZero(ret.F)

\* C5: for A = diag(a, b) with a < 0 < b, solver(A, 1) returns B = [a],
\* F = [0].
IsDiag2(X) ==
  /\ X.r = 2 /\ X.c = 2 /\ X.d = 1
  /\ X.n[1][2] = 0 /\ X.n[2][1] = 0
  /\ X.n[1][1] < 0 /\ 0 < X.n[2][2]

C5_ClosedForm ==
  (Finished /\ IsDiag2(A) /\ N = 1) =>
    /\ pc = "returned"
    /\ ret.B = [r |-> 1, c |-> 1, d |-> 1, n |-> << <<A.n[1][1]>> >>]
    /\ ret.F = [r |-> 1, c |-> 1, d |-> 1, n |-> << <<0>> >>]

C5_Witness == pc = "returned" /\ IsDiag2(A) /\ N = 1 /\ A.n[1][1] = 0 - 2

\* C6: when the count check passes but Q[:N, :N] is singular, the call
\* returns nothing: it fails with LinAlgError, which is not the assertion
\* failure, and no substitute B or F is computed.
C6_SingularFails ==
  (pc \in Solving \cup {"raised"} /\ n_neg = N /\ IsSingular(TopLeft(Q, N))) =>
    /\ pc \in {"solveB", "raised"}
    /\ B = NoMat /\ F = NoMat /\ ret = NoRet
    /\ pc = "raised" => (exc = LinAlgError /\ exc.kind # "AssertionError")

C6_Witness ==
  /\ pc = "raised" /\ InRange /\ n_neg = N /\ exc = LinAlgError
  /\ IsSingular(TopLeft(Q, N))

\* C7: every call on the same A and N has the same outcome: the same failure
\* with the same values, or the same B and F, whichever decomposition schur
\* produced.
C7_Deterministic ==
  /\ Cardinality(results) <= 1
  /\ Finished => results \subseteq {[exc |-> exc, ret |-> ret]}

C7_Witness ==
  /\ pc = "returned" /\ results # {} /\ InRange
  /\ Cardinality(Schur(A)) > 1 /\ ret.B # TopLeft(U, N)

\* C8: no step of a call changes the caller's A or N, and when the call is
\* over none of its locals U, Q, n_neg, B, F is left.
C8_Frame ==
  [][/\ A' = A
     /\ N' = N
     /\ pc' = "idle" => /\ U' = NoMat /\ Q' = NoMat /\ n_neg' = NoInt
                        /\ B' = NoMat /\ F' = NoMat]_vars

C8_Witness ==
  /\ pc = "idle"
  /\ \E o \in results : o.ret # NoRet /\ HasNonZero(o.ret.F)

\* C9: a linear solve on the stable blocks happens only after the
\* decomposition and after the count check has passed.
C9_CheckBeforeSolve ==
  (\/ pc \in Solving
   \/ B # NoMat \/ F # NoMat
   \/ exc.kind = "LinAlgError") =>
    (U # NoMat /\ Q # NoMat /\ n_neg = N)

C9_Witness ==
  /\ pc = "raised" /\ exc.kind = "AssertionError" /\ n_neg > N /\ InRange
  /\ U # NoMat /\ B = NoMat /\ F = NoMat

\* C10: n_neg counts exactly the eigenvalues of A of strictly negative real
\* part (zero real parts are not counted), the count check passes iff N is
\* that count, and these eigenvalues fill the leading n_neg-by-n_neg block of
\* U, no complex pair straddling its boundary.
C10_StrictlyNegativeLead ==
  /\ pc = "assert" =>
       /\ \A d \in Decompositions(A) : NegCount(d.U) = n_neg
       /\ \A i \in 1..U.r : (i <= n_neg) = (U.n[i][i] < 0)
       /\ n_neg \in 1..(U.r - 1) => U.n[n_neg + 1][n_neg] = 0
  /\ pc \in Solving => N = NegCount(U)
  /\ (pc = "raised" /\ exc.kind = "AssertionError") => N # NegCount(U)

C10_Witness ==
  /\ pc = "assert" /\ n_neg = 2 /\ U.r = 3
  /\ U.n[2][1] # 0 /\ U.n[3][3] = 0

====
